---- MODULE Spec2Model ----
(***************************************************************************)
(* node-tile38: the fluent query builder (Tile38Query) and the live        *)
(* geofence channel (LiveGeofence).                                        *)
(*                                                                         *)
(* JavaScript values are tagged tuples, so that values of different        *)
(* JavaScript types can be compared: <<"undefined">>, <<"string", s>>,     *)
(* <<"number", n>>, <<"array", seq>>, <<"object", record>>.                *)
(***************************************************************************)
EXTENDS Integers, Sequences, FiniteSets, TLC

VARIABLES
  type,      \* Tile38Query.type
  key,       \* Tile38Query.key
  options,   \* Tile38Query.options, a Tile38QueryOpts
  calls,     \* history: per clause kind, the builder calls that returned
  made,      \* history: the number of those calls
  last,      \* history: the last call made on the builder and what it gave
  socket,    \* LiveGeofence.socket: 0 (not set) or the index in sockets of the socket it holds
  onCloseCb, \* LiveGeofence.onCloseCb: "none" (not set) or the observer registered
  sockets,   \* the net.Socket objects open() made, in order, each with its parser and listeners
  observed,  \* history: the calls made to close observers
  uncaught   \* history: an 'error' event found no listener and was thrown

qvars == <<type, key, options, calls, made, last>>

lvars == <<socket, onCloseCb, sockets, observed, uncaught>>

vars == <<type, key, options, calls, made, last, socket, onCloseCb, sockets, observed, uncaught>>

(***************************************************************************)
(* Bounds of the model.                                                    *)
(***************************************************************************)
MaxCalls == 2      \* state-changing builder calls per query, over all methods
MaxDeepCalls == 3  \* the same, over the methods of DeepNext
MaxFenceCalls == 3 \* the same, for nofields, detect and executeFence in FenceNext
MaxArgs == 2       \* length of a variadic argument list
MaxOpens == 2      \* open() calls on one LiveGeofence
MaxFrames == 3     \* frames the server sends to one LiveGeofence
MaxChunk == 2      \* frames in one 'data' event

(***************************************************************************)
(* JavaScript values.                                                      *)
(***************************************************************************)
Undefined == <<"undefined">>
Str(s) == <<"string", s>>
Num(n) == <<"number", n>>
Arr(s) == <<"array", s>>
Obj(r) == <<"object", r>>
This == <<"this">>
Thrown(msg) == <<"throw", msg>>

isArray(v) == v[1] = "array"
elems(a) == a[2]

\* ToBoolean of the values the builder holds
truthy(v) ==
  CASE v[1] = "undefined" -> FALSE
    [] v[1] = "string" -> v[2] # ""
    [] v[1] = "number" -> v[2] # 0
    [] OTHER -> TRUE

\* Array.prototype.concat: an array argument is spread, any other appended
concat(a, b) == IF isArray(b) THEN Arr(elems(a) \o elems(b)) ELSE Arr(Append(elems(a), b))

\* String(v) as join and string concatenation apply it to an element
toStr(v) ==
  CASE v[1] = "undefined" -> ""
    [] v[1] = "string" -> v[2]
    [] v[1] = "number" -> ToString(v[2])
    [] OTHER -> "[object]"

\* Array.prototype.join
RECURSIVE join(_, _)
join(s, sep) ==
  IF s = <<>> THEN ""
  ELSE IF Len(s) = 1 THEN toStr(s[1])
  ELSE toStr(s[1]) \o sep \o join(Tail(s), sep)

\* JSON.stringify of a GeoJsonObject, whose one declared property is type
JSONstringify(g) == "{\"type\":\"" \o g[2].type \o "\"}"

\* the relational operators < and > : a comparison with undefined (NaN) is false
jsLess(v, n) == v[1] = "number" /\ v[2] < n
jsGreater(v, n) == v[1] = "number" /\ v[2] > n

(***************************************************************************)
(* Tile38QueryOpts and the builder methods, as functions of the options.   *)
(***************************************************************************)
\* addToArray with the operands of concat exchanged
addToArrayPrepends(arr1, arr2) == IF truthy(arr1) THEN concat(arr2, arr1) ELSE arr2

addToArray(arr1, arr2) == IF truthy(arr1) THEN concat(arr1, arr2) ELSE arr2

Tile38QueryOpts ==
  [ matches |-> Arr(<<>>), order |-> Str("ASC"), distance |-> Undefined,
    where |-> Arr(<<>>), whereIn |-> Arr(<<>>), whereEval |-> Arr(<<>>),
    whereEvalSha |-> Arr(<<>>), clip |-> Undefined, nofields |-> Undefined,
    detect |-> Undefined, commands |-> Undefined, output |-> Undefined,
    getObject |-> Undefined, bounds |-> Undefined, geojson |-> Undefined,
    tile |-> Undefined, quadKey |-> Undefined, hash |-> Undefined,
    circle |-> Undefined, point |-> Undefined, roam |-> Undefined,
    fence |-> Undefined, cursor |-> Undefined, limit |-> Undefined,
    sparse |-> Undefined ]

cursor(o, start) == [o EXCEPT !.cursor = Arr(<<Str("CURSOR"), start>>)]

limit(o, count) == [o EXCEPT !.limit = Arr(<<Str("LIMIT"), count>>)]

sparse(o, spread) == [o EXCEPT !.sparse = Arr(<<Str("SPARSE"), spread>>)]

match(o, value) ==
  LET m == Arr(<<Str("MATCH"), value>>)
  IN [o EXCEPT !.matches = addToArray(o.matches, m)]

order(o, val) == [o EXCEPT !.order = val]

asc(o) == order(o, Str("ASC"))

desc(o) == order(o, Str("DESC"))

distance(o) == [o EXCEPT !.distance = Str("DISTANCE")]

where(o, field, criteria) ==
  LET arr == concat(Arr(<<Str("WHERE"), field>>), criteria)
  IN [o EXCEPT !.where = addToArray(o.where, arr)]

\* whereIn counting its own arguments (arguments.length) instead of the values
whereInCountsArguments(o, field, values) ==
  LET arr == concat(Arr(<<Str("WHEREIN"), field, Num(Len(elems(values)) + 1)>>), values)
  IN [o EXCEPT !.whereIn = addToArray(o.whereIn, arr)]

whereIn(o, field, values) ==
  LET arr == concat(Arr(<<Str("WHEREIN"), field, Num(Len(elems(values)))>>), values)
  IN [o EXCEPT !.whereIn = addToArray(o.whereIn, arr)]

whereEval(o, script, args) ==
  LET arr == concat(Arr(<<Str("WHEREEVAL"), Str("\"" \o toStr(script) \o "\""),
                          Num(Len(elems(args)))>>), args)
  IN [o EXCEPT !.whereEval = addToArray(o.whereEval, arr)]

whereEvalSha(o, sha, args) ==
  LET arr == concat(Arr(<<Str("WHEREEVALSHA"), sha, Num(Len(elems(args)))>>), args)
  IN [o EXCEPT !.whereEvalSha = addToArray(o.whereEvalSha, arr)]

clip(o) == [o EXCEPT !.clip = Str("CLIP")]

nofields(o) == [o EXCEPT !.nofields = Str("NOFIELDS")]

detect(o, values) ==
  [o EXCEPT !.detect = Arr(<<Str("DETECT"), Str(join(elems(values), ","))>>)]

commands(o, values) ==
  [o EXCEPT !.commands = Arr(<<Str("COMMANDS"), Str(join(elems(values), ","))>>)]

output(o, t, precision) ==
  IF t = Str("hashes")
  THEN [o EXCEPT !.output = Arr(<<t, precision>>)]
  ELSE [o EXCEPT !.output = Arr(<<t>>)]

ids(o) == output(o, Str("ids"), Undefined)

count(o) == output(o, Str("count"), Undefined)

objects(o) == output(o, Str("objects"), Undefined)

points(o) == output(o, Str("points"), Undefined)

\* the guard of hashes(): TRUE when it throws
hashesThrows(precision) ==
  precision # Undefined \/ (jsLess(precision, 1) \/ jsGreater(precision, 22))

hashes(o, precision) == output(o, Str("hashes"), precision)

getObject(o, k, id) == [o EXCEPT !.getObject = Arr(<<Str("GET"), k, id>>)]

bounds(o, minlat, minlon, maxlat, maxlon) ==
  [o EXCEPT !.bounds = Arr(<<Str("BOUNDS"), minlat, minlon, maxlat, maxlon>>)]

object(o, geojson) ==
  [o EXCEPT !.geojson = Arr(<<Str("OBJECT"), Str(JSONstringify(geojson))>>)]

tile(o, x, y, z) == [o EXCEPT !.tile = Arr(<<Str("TILE"), x, y, z>>)]

quadKey(o, k) == [o EXCEPT !.quadKey = Arr(<<Str("QUADKEY"), k>>)]

hash(o, geohash) == [o EXCEPT !.hash = Arr(<<Str("HASH"), geohash>>)]

circle(o, lat, lon, meters) ==
  [o EXCEPT !.circle = Arr(<<Str("CIRCLE"), lat, lon, meters>>)]

\* point adding to the clause it already holds instead of replacing it
pointAdds(o, lat, lon, meters) ==
  LET p == addToArray(o.point, Arr(<<Str("POINT"), lat, lon>>))
  IN [o EXCEPT !.point = IF meters # Undefined THEN Arr(Append(elems(p), meters)) ELSE p]

\* point holding a place for meters also when it is not given
pointPlaceholder(o, lat, lon, meters) ==
  [o EXCEPT !.point = Arr(<<Str("POINT"), lat, lon, meters>>)]

point(o, lat, lon, meters) ==
  LET p == Arr(<<Str("POINT"), lat, lon>>)
  IN [o EXCEPT !.point = IF meters # Undefined THEN Arr(Append(elems(p), meters)) ELSE p]

roam(o, k, pattern, meters) ==
  [o EXCEPT !.roam = Arr(<<Str("ROAM"), k, pattern, meters>>)]

\* an assignment that clears the flag when it is set
setFenceToggles(o) ==
  [o EXCEPT !.fence = IF o.fence = Undefined THEN Str("FENCE") ELSE Undefined]

\* the assignment of executeFence()
setFence(o) == [o EXCEPT !.fence = Str("FENCE")]

(***************************************************************************)
(* commandArr(): the walk over the clause kinds.                           *)
(***************************************************************************)
\* the walk with point and circle exchanged
commandsListSwapped ==
  << "cursor", "limit", "sparse", "matches", "order", "distance", "where",
     "whereIn", "whereEval", "whereEvalSha", "clip", "nofields", "fence",
     "detect", "commands", "output", "getObject", "bounds", "geojson", "tile",
     "quadKey", "hash", "circle", "point", "roam" >>

commandsList ==
  << "cursor", "limit", "sparse", "matches", "order", "distance", "where",
     "whereIn", "whereEval", "whereEvalSha", "clip", "nofields", "fence",
     "detect", "commands", "output", "getObject", "bounds", "geojson", "tile",
     "quadKey", "hash", "point", "circle", "roam" >>

\* one turn of the loop: st.cmd is the array being built, st.o the options
\* a turn of the loop that takes the elements out of the clause (shift) as it copies them
pushOptShifts(st, c) ==
  LET opt == st.o[c]
  IN IF opt # Undefined
     THEN IF isArray(opt)
          THEN [st EXCEPT !.cmd = @ \o elems(opt), !.o[c] = Arr(<<>>)]
          ELSE [st EXCEPT !.cmd = Append(@, opt)]
     ELSE st

pushOpt(st, c) ==
  LET opt == st.o[c]
  IN IF opt # Undefined
     THEN IF isArray(opt)
          THEN [st EXCEPT !.cmd = @ \o elems(opt)]
          ELSE [st EXCEPT !.cmd = Append(@, opt)]
     ELSE st

RECURSIVE commandArrLoop(_, _)
commandArrLoop(st, i) ==
  IF i > Len(commandsList) THEN st
  ELSE commandArrLoop(pushOpt(st, commandsList[i]), i + 1)

\* the run of commandArr(): its array and the options it leaves
commandArrRun(k, o) == commandArrLoop([cmd |-> <<Str(k)>>, o |-> o], 1)

commandArr(k, o) == Arr(commandArrRun(k, o).cmd)

commandStr(t, k, o) == Str(t \o " " \o join(elems(commandArr(k, o)), " "))

(***************************************************************************)
(* The arguments the calls are made with.                                  *)
(***************************************************************************)
SearchTypes == {"NEARBY"}
Keys == {"fleet"}
Integrals == {Num(0), Num(7)}
Patterns == {Str("a*"), Str("b*")}
Orders == {Str("ASC"), Str("DESC")}
Fields == {Str("speed")}
Names == {Str("x"), Str("y")}
Scripts == {Str("return true")}
Shas == {Str("5f2a")}
Coords == {Num(33), Num(-115)}
Meters == {Num(50)}
ArgLists == {Arr([i \in 1..n |-> Num(i)]) : n \in 0..MaxArgs}
DetectLists == {Arr(<<Str("inside")>>), Arr(<<Str("enter"), Str("exit")>>)}
CommandLists == {Arr(<<Str("set")>>), Arr(<<Str("del"), Str("drop")>>)}
OutputTypes == {Str("ids"), Str("bounds"), Str("hashes")}
Precisions == {Undefined, Num(0), Num(1), Num(22), Num(23)}
GeoJsonObjects == {Obj([type |-> "Point"]), Obj([type |-> "Polygon"])}

(***************************************************************************)
(* A call: the method and its arguments.  apply is the effect of the call  *)
(* on the options; kindOf is the options field the method writes.          *)
(***************************************************************************)
apply(o, c) ==
  CASE c.m = "cursor" -> cursor(o, c.a[1])
    [] c.m = "limit" -> limit(o, c.a[1])
    [] c.m = "sparse" -> sparse(o, c.a[1])
    [] c.m = "match" -> match(o, c.a[1])
    [] c.m = "order" -> order(o, c.a[1])
    [] c.m = "asc" -> asc(o)
    [] c.m = "desc" -> desc(o)
    [] c.m = "distance" -> distance(o)
    [] c.m = "where" -> where(o, c.a[1], c.a[2])
    [] c.m = "whereIn" -> whereIn(o, c.a[1], c.a[2])
    [] c.m = "whereEval" -> whereEval(o, c.a[1], c.a[2])
    [] c.m = "whereEvalSha" -> whereEvalSha(o, c.a[1], c.a[2])
    [] c.m = "clip" -> clip(o)
    [] c.m = "nofields" -> nofields(o)
    [] c.m = "detect" -> detect(o, c.a[1])
    [] c.m = "commands" -> commands(o, c.a[1])
    [] c.m = "output" -> output(o, c.a[1], c.a[2])
    [] c.m = "ids" -> ids(o)
    [] c.m = "count" -> count(o)
    [] c.m = "objects" -> objects(o)
    [] c.m = "points" -> points(o)
    [] c.m = "hashes" -> hashes(o, c.a[1])
    [] c.m = "getObject" -> getObject(o, c.a[1], c.a[2])
    [] c.m = "bounds" -> bounds(o, c.a[1], c.a[2], c.a[3], c.a[4])
    [] c.m = "object" -> object(o, c.a[1])
    [] c.m = "tile" -> tile(o, c.a[1], c.a[2], c.a[3])
    [] c.m = "quadKey" -> quadKey(o, c.a[1])
    [] c.m = "hash" -> hash(o, c.a[1])
    [] c.m = "circle" -> circle(o, c.a[1], c.a[2], c.a[3])
    [] c.m = "point" -> point(o, c.a[1], c.a[2], c.a[3])
    [] c.m = "roam" -> roam(o, c.a[1], c.a[2], c.a[3])
    [] c.m = "executeFence" -> setFence(o)

kindOf(m) ==
  CASE m \in {"order", "asc", "desc"} -> "order"
    [] m \in {"output", "ids", "count", "objects", "points", "hashes"} -> "output"
    [] m = "match" -> "matches"
    [] m = "object" -> "geojson"
    [] m = "executeFence" -> "fence"
    [] OTHER -> m

Kinds == {commandsList[i] : i \in 1..Len(commandsList)}

(***************************************************************************)
(* The builder as a state machine: one action per method.                  *)
(***************************************************************************)
Init ==
  /\ type \in SearchTypes
  /\ key \in Keys
  /\ options = Tile38QueryOpts
  /\ calls = [k \in Kinds |-> <<>>]
  /\ made = 0
  /\ last = [a |-> <<>>, m |-> "new", out |-> This, rep |-> FALSE]
  /\ socket = 0
  /\ onCloseCb = "none"
  /\ sockets = <<>>
  /\ observed = <<>>
  /\ uncaught = FALSE

\* a builder method that returns this
Chain(c, atMost) ==
  /\ made < atMost
  /\ made' = made + 1
  /\ options' = apply(options, c)
  /\ calls' = [calls EXCEPT ![kindOf(c.m)] = Append(@, c)]
  /\ last' = [a |-> <<>>, m |-> "chain", out |-> This, rep |-> FALSE]
  /\ UNCHANGED <<type, key>>
  /\ UNCHANGED lvars

Call(m, a) == Chain([a |-> a, m |-> m], MaxCalls)

Cursor == \E start \in Integrals : Call("cursor", <<start>>)
Limit == \E n \in Integrals : Call("limit", <<n>>)
Sparse == \E spread \in Integrals : Call("sparse", <<spread>>)
Match == \E value \in Patterns : Call("match", <<value>>)
Order == \E val \in Orders : Call("order", <<val>>)
Asc == Call("asc", <<>>)
Desc == Call("desc", <<>>)
Distance == Call("distance", <<>>)
Where == \E field \in Fields, criteria \in ArgLists : Call("where", <<field, criteria>>)
WhereIn == \E field \in Fields, values \in ArgLists : Call("whereIn", <<field, values>>)
WhereEval == \E script \in Scripts, args \in ArgLists : Call("whereEval", <<script, args>>)
WhereEvalSha == \E sha \in Shas, args \in ArgLists : Call("whereEvalSha", <<sha, args>>)
Clip == Call("clip", <<>>)
Nofields == Call("nofields", <<>>)
Detect == \E values \in DetectLists : Call("detect", <<values>>)
Commands == \E values \in CommandLists : Call("commands", <<values>>)
Output ==
  \E t \in OutputTypes, precision \in {Undefined, Num(1)} :
    Call("output", <<t, precision>>)
Ids == Call("ids", <<>>)
Count == Call("count", <<>>)
Objects == Call("objects", <<>>)
Points == Call("points", <<>>)
GetObject == \E id \in Names : Call("getObject", <<Str("fleet"), id>>)
Bounds == \E lat \in Coords : Call("bounds", <<lat, Num(-116), Num(34), Num(-114)>>)
Object == \E geojson \in GeoJsonObjects : Call("object", <<geojson>>)
Tile == \E x \in Integrals : Call("tile", <<x, Num(3), Num(5)>>)
QuadKey == \E k \in Names : Call("quadKey", <<k>>)
Hash == \E geohash \in Names : Call("hash", <<geohash>>)
Circle == \E lat \in Coords : Call("circle", <<lat, Num(-115), Num(50)>>)
Point ==
  \E lat \in Coords, meters \in Meters \cup {Undefined} :
    Call("point", <<lat, Num(-115), meters>>)
Roam == \E pattern \in Patterns : Call("roam", <<Str("fleet"), pattern, Num(50)>>)

\* hashes(precision): throws before it changes anything, or is output("hashes", precision)
Hashes ==
  \E precision \in Precisions :
    IF hashesThrows(precision)
    THEN /\ last' = [a |-> <<precision>>, m |-> "hashes",
                     out |-> Thrown("precision must be a integer between 1 and 22 inclusive"),
                     rep |-> FALSE]
         /\ UNCHANGED <<type, key, options, calls, made>>
         /\ UNCHANGED lvars
    ELSE /\ made < MaxCalls
         /\ made' = made + 1
         /\ options' = hashes(options, precision)
         /\ calls' = [calls EXCEPT !["output"] = Append(@, [a |-> <<precision>>, m |-> "hashes"])]
         /\ last' = [a |-> <<precision>>, m |-> "hashes", out |-> This, rep |-> FALSE]
         /\ UNCHANGED <<type, key>>
         /\ UNCHANGED lvars

\* a method that serializes: it returns out and leaves the options commandArr() leaves
\* (history: was = the options it was called on, prev = what the same method
\* returned when it was also the call before)
Serialize(m, out) ==
  /\ options' = commandArrRun(key, options).o
  /\ last' = [a |-> <<>>, m |-> m, out |-> out, rep |-> (last.m = m),
              was |-> options, prev |-> IF last.m = m THEN last.out ELSE out]
  /\ UNCHANGED <<type, key, calls, made>>
  /\ UNCHANGED lvars

CommandArr == Serialize("commandArr", commandArr(key, options))

CommandStr == Serialize("commandStr", commandStr(type, key, options))

\* execute(): client.sendCommand(type, 1, commandArr())
Execute ==
  Serialize("execute", <<"sendCommand", Str(type), Num(1), commandArr(key, options)>>)

\* executeFence(callback): sets the fence flag, then client.openLiveFence(type, commandArr(), callback)
Fence(atMost) ==
  /\ made < atMost
  /\ made' = made + 1
  /\ options' = commandArrRun(key, setFence(options)).o
  /\ calls' = [calls EXCEPT !["fence"] = Append(@, [a |-> <<>>, m |-> "executeFence"])]
  /\ last' = [a |-> <<>>, m |-> "executeFence",
              out |-> <<"openLiveFence", Str(type), commandArr(key, setFence(options))>>,
              rep |-> (last.m = "executeFence")]
  /\ UNCHANGED <<type, key>>
  /\ UNCHANGED lvars

ExecuteFence == Fence(MaxCalls)

Next ==
  \/ Cursor \/ Limit \/ Sparse \/ Match \/ Order \/ Asc \/ Desc \/ Distance
  \/ Where \/ WhereIn \/ WhereEval \/ WhereEvalSha \/ Clip \/ Nofields
  \/ Detect \/ Commands \/ Output \/ Ids \/ Count \/ Objects \/ Points \/ Hashes
  \/ GetObject \/ Bounds \/ Object \/ Tile \/ QuadKey \/ Hash \/ Circle \/ Point \/ Roam
  \/ CommandArr \/ CommandStr \/ Execute \/ ExecuteFence

Spec == Init /\ [][Next]_vars

(***************************************************************************)
(* The same builder, one call deeper, over the repeatable methods and a    *)
(* singular method before (limit) and after (point) them in the walk.      *)
(***************************************************************************)
DeepCall(m, a) == Chain([a |-> a, m |-> m], MaxDeepCalls)

DeepLimit == \E n \in Integrals : DeepCall("limit", <<n>>)
DeepMatch == \E value \in Patterns : DeepCall("match", <<value>>)
DeepWhere == \E field \in Fields, criteria \in ArgLists : DeepCall("where", <<field, criteria>>)
DeepWhereIn == \E field \in Fields, values \in ArgLists : DeepCall("whereIn", <<field, values>>)
DeepWhereEval == \E script \in Scripts, args \in ArgLists : DeepCall("whereEval", <<script, args>>)
DeepWhereEvalSha == \E sha \in Shas, args \in ArgLists : DeepCall("whereEvalSha", <<sha, args>>)
DeepPoint == \E meters \in Meters \cup {Undefined} : DeepCall("point", <<Num(33), Num(-115), meters>>)

DeepNext ==
  \/ DeepLimit \/ DeepMatch \/ DeepWhere \/ DeepWhereIn \/ DeepWhereEval
  \/ DeepWhereEvalSha \/ DeepPoint \/ CommandArr

DeepSpec == Init /\ [][DeepNext]_vars

(***************************************************************************)
(* The builder with one more call of the methods around the fence flag:    *)
(* nofields and detect, its neighbours in the walk, and executeFence.      *)
(***************************************************************************)
FenceCall(m, a) == Chain([a |-> a, m |-> m], MaxFenceCalls)

FenceNofields == FenceCall("nofields", <<>>)
FenceDetect == \E values \in DetectLists : FenceCall("detect", <<values>>)
FenceExecuteFence == Fence(MaxFenceCalls)

FenceNext ==
  \/ Cursor \/ Limit \/ Sparse \/ Match \/ Order \/ Asc \/ Desc \/ Distance
  \/ Where \/ WhereIn \/ WhereEval \/ WhereEvalSha \/ Clip \/ Nofields
  \/ Detect \/ Commands \/ Output \/ Ids \/ Count \/ Objects \/ Points
  \/ GetObject \/ Bounds \/ Object \/ Tile \/ QuadKey \/ Hash \/ Circle \/ Point \/ Roam
  \/ FenceNofields \/ FenceDetect \/ FenceExecuteFence
  \/ CommandArr \/ Execute

FenceSpec == Init /\ [][FenceNext]_vars

(***************************************************************************)
(* LiveGeofence.  A socket of sockets is a record:                         *)
(*   state     "connecting", "connected" or "destroyed" (net.Socket)       *)
(*   close     the 'close' event: "no", "pending" (to be emitted), "emitted"*)
(*   password, command   the arguments of the open() that made it          *)
(*   written   what was written to it                                      *)
(*   decoded   history: the frames its parser decoded                      *)
(*   delivered history: the calls made to the callback of its open()       *)
(*   by        history: what destroyed it                                  *)
(***************************************************************************)
Null == <<"null">>

Passwords == {"", "secret"}
TheCommand == "NEARBY fleet FENCE POINT 33 -115"
Observers == {"observerA", "observerB"}

\* the replies of the server: the text, its first character, whether JSON.parse takes it
Ack == [text |-> "OK", first |-> "O", json |-> FALSE]
JsonReply == [text |-> "{\"id\":1}", first |-> "{", json |-> TRUE]
BadJsonReply == [text |-> "{not json", first |-> "{", json |-> FALSE]

ErrorText == [text |-> "ERR invalid argument", first |-> "E", json |-> FALSE]
FatalText == [text |-> "Protocol error", first |-> "P", json |-> FALSE]

\* what the parser makes of the bytes: a reply, an error, a fatal error
Frames ==
  { [v |-> Ack, t |-> "reply"], [v |-> JsonReply, t |-> "reply"],
    [v |-> BadJsonReply, t |-> "reply"],
    [v |-> ErrorText, t |-> "error"], [v |-> FatalText, t |-> "fatal"] }

Chunks == UNION {[1..n -> Frames] : n \in 1..MaxChunk}

\* the frames decoded so far, on all the sockets
RECURSIVE framesDecoded(_, _)
framesDecoded(socks, i) ==
  IF i > Len(socks) THEN 0 ELSE Len(socks[i].decoded) + framesDecoded(socks, i + 1)

\* new net.Socket() with the listeners and the parser open() gives it
newSocket(password, command) ==
  [ decoded |-> <<>>, password |-> password, command |-> command,
    state |-> "connecting", close |-> "no", written |-> <<>>, delivered |-> <<>>,
    by |-> "" ]

\* net.Socket.destroy(): no more I/O on the socket; 'close' will be emitted
destroy(socks, s, who) ==
  IF socks[s].state = "destroyed" THEN socks
  ELSE [socks EXCEPT ![s].state = "destroyed", ![s].close = "pending", ![s].by = who]

\* LiveGeofence.close()
close(socks) == IF socket # 0 THEN destroy(socks, socket, "caller") ELSE socks

\* callback whose call is recorded ahead of the calls made before it
callbackPrepends(socks, s, err, results) ==
  [socks EXCEPT ![s].delivered =
     <<[err |-> err, results |-> results, gone |-> socks[s].by]>> \o @]

\* callback(err, results) of the open() that made socket s
callback(socks, s, err, results) ==
  [socks EXCEPT ![s].delivered =
     Append(@, [err |-> err, results |-> results, gone |-> socks[s].by])]

\* returnReply without the test for 'OK'
returnReplyForwardsAck(socks, s, reply) ==
  LET response ==
        IF reply.first \in {"{", "["} /\ reply.json
        THEN Obj(reply.text)
        ELSE Str(reply.text)
  IN callback(socks, s, Null, response)

returnReply(socks, s, reply) ==
  IF reply.text = "OK" THEN socks
  ELSE LET response ==
             IF reply.first \in {"{", "["} /\ reply.json
             THEN Obj(reply.text)
             ELSE Str(reply.text)
       IN callback(socks, s, Null, response)

\* returnError that destroys the socket as returnFatalError does
returnErrorDestroys(socks, s, err) ==
  callback(destroy(socks, socket, "fatal"), s, Str(err.text), Null)

returnError(socks, s, err) == callback(socks, s, Str(err.text), Null)

\* returnFatalError that destroys the socket and does not call the callback
returnFatalErrorSilent(socks, s, err) == destroy(socks, socket, "fatal")

returnFatalError(socks, s, err) ==
  callback(destroy(socks, socket, "fatal"), s, Str(err.text), Null)

\* parser.execute(buffer) on the parser of socket s: the frames of the chunk in
\* order, up to a fatal error, which drops the rest of the buffer.  The callback
\* called for frame closeAt calls close() before it returns (0: no callback does).
RECURSIVE parserExecute(_, _, _, _, _)
parserExecute(socks, s, chunk, i, closeAt) ==
  IF i > Len(chunk) THEN socks
  ELSE LET f == chunk[i]
           s1 == [socks EXCEPT ![s].decoded = Append(@, f)]
           s2 == CASE f.t = "reply" -> returnReply(s1, s, f.v)
                   [] f.t = "error" -> returnError(s1, s, f.v)
                   [] f.t = "fatal" -> returnFatalError(s1, s, f.v)
           s3 == IF closeAt = i THEN close(s2) ELSE s2
       IN IF f.t = "fatal" THEN s3 ELSE parserExecute(s3, s, chunk, i + 1, closeAt)

\* the frames of a chunk for which the callback is called
calledFor(chunk) == {i \in 1..Len(chunk) : chunk[i] # [v |-> Ack, t |-> "reply"]}

\* onClose(callback)
OnClose ==
  /\ \E cb \in Observers : onCloseCb' = cb
  /\ UNCHANGED <<socket, sockets, observed, uncaught>>
  /\ UNCHANGED qvars

\* open(host, port, password, command, callback), up to its return; the caller
\* opens again with the password it opened with before
Open ==
  /\ Len(sockets) < MaxOpens
  /\ \E password \in Passwords :
       /\ sockets # <<>> => password = sockets[1].password
       /\ sockets' = Append(sockets, newSocket(password, TheCommand))
  /\ socket' = Len(sockets) + 1
  /\ UNCHANGED <<onCloseCb, observed, uncaught>>
  /\ UNCHANGED qvars

\* the listener of connect writing the command ahead of AUTH
ConnectCommandFirst(s) ==
  /\ sockets[s].state = "connecting"
  /\ sockets' =
       [sockets EXCEPT
          ![s].state = "connected",
          ![s].written =
             IF sockets[s].password # ""
             THEN <<sockets[s].command \o "\r\n", "AUTH " \o sockets[s].password \o "\r\n">>
             ELSE <<sockets[s].command \o "\r\n">>]
  /\ UNCHANGED <<socket, onCloseCb, observed, uncaught>>
  /\ UNCHANGED qvars

\* the connection is made: the listener given to socket.connect
Connect(s) ==
  /\ sockets[s].state = "connecting"
  /\ sockets' =
       [sockets EXCEPT
          ![s].state = "connected",
          ![s].written =
             IF sockets[s].password # ""
             THEN <<"AUTH " \o sockets[s].password \o "\r\n", sockets[s].command \o "\r\n">>
             ELSE <<sockets[s].command \o "\r\n">>]
  /\ UNCHANGED <<socket, onCloseCb, observed, uncaught>>
  /\ UNCHANGED qvars

\* socket.on('data'): a chunk arrives on a connected socket
Data(s) ==
  /\ sockets[s].state = "connected"
  /\ \E chunk \in Chunks :
       /\ framesDecoded(sockets, 1) + Len(chunk) <= MaxFrames
       /\ \E closeAt \in {0} \cup calledFor(chunk) :
            sockets' = parserExecute(sockets, s, chunk, 1, closeAt)
  /\ UNCHANGED <<socket, onCloseCb, observed, uncaught>>
  /\ UNCHANGED qvars

\* the peer closes the connection
PeerClose(s) ==
  /\ sockets[s].state = "connected"
  /\ sockets' = destroy(sockets, s, "peer")
  /\ UNCHANGED <<socket, onCloseCb, observed, uncaught>>
  /\ UNCHANGED qvars

\* the connection is refused or breaks: 'error' is emitted, and no listener of it is registered
SocketError(s) ==
  /\ sockets[s].state \in {"connecting", "connected"}
  /\ sockets' = destroy(sockets, s, "error")
  /\ uncaught' = TRUE
  /\ UNCHANGED <<socket, onCloseCb, observed>>
  /\ UNCHANGED qvars

\* socket.on('close'): the 'close' event of a destroyed socket
CloseEvent(s) ==
  /\ sockets[s].close = "pending"
  /\ sockets' = [sockets EXCEPT ![s].close = "emitted"]
  /\ observed' =
       IF onCloseCb # "none"
       THEN Append(observed, [cb |-> onCloseCb, arg |-> FALSE, sock |-> s])
       ELSE observed
  /\ UNCHANGED <<socket, onCloseCb, uncaught>>
  /\ UNCHANGED qvars

\* close(), called between events
Close ==
  /\ sockets' = close(sockets)
  /\ UNCHANGED <<socket, onCloseCb, observed, uncaught>>
  /\ UNCHANGED qvars

LiveNext ==
  \/ OnClose \/ Open \/ Close
  \/ \E s \in 1..Len(sockets) : Connect(s)
  \/ \E s \in 1..Len(sockets) : Data(s)
  \/ \E s \in 1..Len(sockets) : PeerClose(s)
  \/ \E s \in 1..Len(sockets) : SocketError(s)
  \/ \E s \in 1..Len(sockets) : CloseEvent(s)

LiveSpec == Init /\ [][LiveNext]_vars

(***************************************************************************)
(* What the claims speak of.                                               *)
(***************************************************************************)
\* the clause kinds in the order the specification gives for serialization
ClaimedOrder ==
  << "cursor", "limit", "sparse", "matches", "order", "distance", "where",
     "whereIn", "whereEval", "whereEvalSha", "clip", "nofields", "fence",
     "detect", "commands", "output", "getObject", "bounds", "geojson", "tile",
     "quadKey", "hash", "point", "circle", "roam" >>

Repeatable == {"matches", "where", "whereIn", "whereEval", "whereEvalSha"}

Singular ==
  {"cursor", "limit", "sparse", "order", "distance", "clip", "nofields", "detect",
   "commands", "output", "getObject", "bounds", "geojson", "tile", "quadKey", "hash",
   "point", "circle", "roam"}

\* what a clause value contributes to the serialization
fragOf(v) == IF v = Undefined THEN <<>> ELSE IF isArray(v) THEN elems(v) ELSE <<v>>

RECURSIVE replay(_, _)
replay(o, cs) == IF cs = <<>> THEN o ELSE replay(apply(o, Head(cs)), Tail(cs))

\* the fragments of kind k when only the calls of that kind are made, on a new builder
kindAlone(k) == fragOf(replay(Tile38QueryOpts, calls[k])[k])

\* the fragment of kind k when only the last call of that kind is made, on a new builder
lastAlone(k) ==
  IF calls[k] = <<>> THEN fragOf(Tile38QueryOpts[k])
  ELSE fragOf(apply(Tile38QueryOpts, calls[k][Len(calls[k])])[k])

theOutput == elems(commandArr(key, options))

\* the part of the output at the position of kind ClaimedOrder[i]
RECURSIVE offsetOf(_)
offsetOf(i) == IF i = 1 THEN 1 ELSE offsetOf(i - 1) + Len(fragOf(options[ClaimedOrder[i - 1]]))

rank(k) == CHOOSE i \in 1..Len(ClaimedOrder) : ClaimedOrder[i] = k

groupOf(k) ==
  SubSeq(theOutput, offsetOf(rank(k)) + 1, offsetOf(rank(k)) + Len(fragOf(options[k])))

\* the fragment the specification gives for one call of a repeatable method
claimedFragment(c) ==
  CASE c.m = "match" -> <<Str("MATCH"), c.a[1]>>
    [] c.m = "where" -> <<Str("WHERE"), c.a[1]>> \o elems(c.a[2])
    [] c.m = "whereIn" ->
         <<Str("WHEREIN"), c.a[1], Num(Len(elems(c.a[2])))>> \o elems(c.a[2])
    [] c.m = "whereEval" ->
         <<Str("WHEREEVAL"), Str("\"" \o c.a[1][2] \o "\""), Num(Len(elems(c.a[2])))>>
           \o elems(c.a[2])
    [] c.m = "whereEvalSha" ->
         <<Str("WHEREEVALSHA"), c.a[1], Num(Len(elems(c.a[2])))>> \o elems(c.a[2])

RECURSIVE claimedFragments(_)
claimedFragments(cs) ==
  IF cs = <<>> THEN <<>> ELSE claimedFragment(Head(cs)) \o claimedFragments(Tail(cs))

\* the fragments f gives for the kinds, put in the claimed order
RECURSIVE inOrder(_, _)
inOrder(f, i) ==
  IF i > Len(ClaimedOrder) THEN <<>> ELSE f[ClaimedOrder[i]] \o inOrder(f, i + 1)

\* C1: commandArr() is the key followed by the fragments of the clause kinds in
\* the fixed order cursor, limit, ..., roam, each kind's fragments being those its
\* own calls give: the output depends on the calls of each kind, not on how the
\* calls of different kinds were ordered among each other.
C1_FixedOrder == theOutput = <<Str(key)>> \o inOrder([k \in Kinds |-> kindAlone(k)], 1)

\* calls of the first and of the last kind of the walk were both made
C1_Witness ==
  /\ calls["roam"] # <<>> /\ calls["cursor"] # <<>>
  /\ theOutput[2] = Str("CURSOR") /\ theOutput[5] = Str("ROAM")

\* C2: for each repeatable kind (match, where, whereIn, whereEval, whereEvalSha)
\* the output holds, at the kind's position, one fragment per call of the kind,
\* contiguous and in the order of the calls, whatever other calls were made.
C2_RepeatableInCallOrder ==
  \A k \in Repeatable : groupOf(k) = claimedFragments(calls[k])

\* two different match calls and a call of another kind
C2_Witness ==
  /\ Len(calls["matches"]) = 2 /\ calls["matches"][1] # calls["matches"][2]
  /\ calls["limit"] # <<>>

\* C3: for each non-repeatable kind the output holds, at the kind's position,
\* the fragment of the last call of that kind and nothing of an earlier call.
C3_LastCallOnly ==
  LET expected == [k \in Kinds |-> IF k \in Singular THEN lastAlone(k) ELSE fragOf(options[k])]
  IN theOutput = <<Str(key)>> \o inOrder(expected, 1)

\* point(lat, lon, meters) then point(lat', lon)
C3_Witness ==
  /\ Len(calls["point"]) = 2
  /\ calls["point"][1].a[3] # Undefined /\ calls["point"][2].a[3] = Undefined
  /\ calls["point"][1].a[1] # calls["point"][2].a[1]
  /\ Len(groupOf("point")) = 3

\* C4: a kind contributes to the output only if its method was called, no element
\* of the output is undefined, and a new builder serializes to [key].
C4_AbsentContributeNothing ==
  LET called == [k \in Kinds |-> IF calls[k] = <<>> THEN <<>> ELSE fragOf(options[k])]
  IN /\ theOutput = <<Str(key)>> \o inOrder(called, 1)
     /\ \A i \in 1..Len(theOutput) : theOutput[i] # Undefined

\* C5: hashes(precision) throws exactly when precision is missing or outside
\* 1..22, and otherwise makes the output clause ["hashes", precision].
C5_HashesValidates ==
  last.m = "hashes" =>
    LET precision == last.a[1]
        valid == precision[1] = "number" /\ precision[2] >= 1 /\ precision[2] <= 22
    IN /\ (last.out[1] = "throw") <=> ~valid
       /\ valid => options.output = Arr(<<Str("hashes"), precision>>)

\* reading WHEREIN fragments the way their counts say
RECURSIVE readWhereIn(_)
readWhereIn(s) ==
  IF s = <<>> THEN <<>>
  ELSE IF Len(s) < 3 \/ s[1] # Str("WHEREIN") \/ s[3][1] # "number"
    THEN << <<Undefined, <<>>>> >>
  ELSE IF s[3][2] < 0 \/ s[3][2] > Len(s) - 3
    THEN << <<Undefined, <<>>>> >>
  ELSE << <<s[2], SubSeq(s, 4, 3 + s[3][2])>> >>
         \o readWhereIn(SubSeq(s, 4 + s[3][2], Len(s)))

\* C6: read by their counts, the WHEREIN fragments of the output are the whereIn
\* calls, one fragment per call: each count is the number of values of its call.
C6_WhereInCount ==
  readWhereIn(groupOf("whereIn")) =
    [i \in 1..Len(calls["whereIn"]) |->
       <<calls["whereIn"][i].a[1], elems(calls["whereIn"][i].a[2])>>]

\* whereIn called with no value and with two
C6_Witness ==
  /\ Len(calls["whereIn"]) >= 2
  /\ \E i, j \in 1..Len(calls["whereIn"]) :
       /\ elems(calls["whereIn"][i].a[2]) = <<>>
       /\ Len(elems(calls["whereIn"][j].a[2])) = 2

\* C7: commandArr() and commandStr() leave the options as they were, and called
\* again with no call in between return what they returned.
C7_SerializeIdempotent ==
  last.m \in {"commandArr", "commandStr"} =>
    /\ options = last.was
    /\ last.out = last.prev

\* a second commandArr() in a row, on a builder that holds repeatable clauses
C7_Witness ==
  /\ last.m = "commandArr" /\ last.rep
  /\ calls["matches"] # <<>> /\ calls["point"] # <<>>

\* the observer calls made for socket s
observedFor(s) == {i \in 1..Len(observed) : observed[i].sock = s}

\* C8: a close observer is never called for a socket the caller closed with
\* close(); for a socket the peer closed it is called with false, and at most once.
C8_ObserverOnlyWhenUnsolicited ==
  /\ \A i \in 1..Len(observed) :
       /\ sockets[observed[i].sock].by # "caller"
       /\ observed[i].arg = FALSE
  /\ \A s \in 1..Len(sockets) : Cardinality(observedFor(s)) <= 1

\* C9: once the parser of a socket has reported a fatal error, the callback has
\* been called with (error, null), the socket is destroyed, and nothing more is
\* decoded or delivered on it.
C9_FatalEndsDelivery ==
  \A s \in 1..Len(sockets) : \A i \in 1..Len(sockets[s].decoded) :
    sockets[s].decoded[i].t = "fatal" =>
      /\ i = Len(sockets[s].decoded)
      /\ sockets[s].state = "destroyed"
      /\ sockets[s].delivered # <<>>
      /\ LET d == sockets[s].delivered[Len(sockets[s].delivered)]
         IN d.err = Str(FatalText.text) /\ d.results = Null

\* the stream of C10: an acknowledgment, a JSON object, a fatal error
Script ==
  << [v |-> Ack, t |-> "reply"], [v |-> JsonReply, t |-> "reply"],
     [v |-> FatalText, t |-> "fatal"] >>

claimedCall(f) ==
  CASE f.t = "reply" ->
         <<Null, IF f.v.first \in {"{", "["} /\ f.v.json THEN Obj(f.v.text) ELSE Str(f.v.text)>>
    [] f.t = "error" -> <<Str(f.v.text), Null>>
    [] f.t = "fatal" -> <<Str(f.v.text), Null>>

\* the calls the specification gives for a sequence of frames: none for the acknowledgment
RECURSIVE claimedCalls(_)
claimedCalls(fs) ==
  IF fs = <<>> THEN <<>>
  ELSE (IF Head(fs).v.text = "OK" /\ Head(fs).t = "reply" THEN <<>> ELSE <<claimedCall(Head(fs))>>)
         \o claimedCalls(Tail(fs))

\* the calls made to the callback of socket s
deliveredCalls(s) ==
  [i \in 1..Len(sockets[s].delivered) |->
     <<sockets[s].delivered[i].err, sockets[s].delivered[i].results>>]

\* the frames of fs of type t
RECURSIVE framesOf(_, _)
framesOf(fs, t) ==
  IF fs = <<>> THEN <<>>
  ELSE (IF Head(fs).t = t THEN <<Head(fs)>> ELSE <<>>) \o framesOf(Tail(fs), t)

\* the calls of cs made with no error
RECURSIVE repliesOf(_)
repliesOf(cs) ==
  IF cs = <<>> THEN <<>>
  ELSE (IF Head(cs)[1] = Null THEN <<Head(cs)>> ELSE <<>>) \o repliesOf(Tail(cs))

fatalDecoded == \E s \in 1..Len(sockets) : framesOf(sockets[s].decoded, "fatal") # <<>>

\* C11: a decoded recoverable error is given to the handler as (message, null);
\* it destroys no socket (a socket is destroyed by close(), by the peer, by a
\* transport error or after a fatal error only), and the frames decoded after it
\* are delivered.
C11_ErrorKeepsOpen ==
  /\ \A s \in 1..Len(sockets) : \A i \in 1..Len(sockets[s].decoded) :
       sockets[s].decoded[i].t = "error" =>
         LET n == Len(claimedCalls(SubSeq(sockets[s].decoded, 1, i)))
         IN /\ n <= Len(sockets[s].delivered)
            /\ deliveredCalls(s)[n] = <<Str(sockets[s].decoded[i].v.text), Null>>
            /\ Len(sockets[s].delivered) = Len(claimedCalls(sockets[s].decoded))
  /\ \A s \in 1..Len(sockets) :
       /\ sockets[s].state = "destroyed" => sockets[s].by \in {"caller", "peer", "error", "fatal"}
       /\ sockets[s].by = "fatal" => fatalDecoded
       /\ sockets[s].state # "destroyed" => observedFor(s) = {}

\* a socket still connected has decoded an error and then a reply, both delivered
C11_Witness ==
  \E s \in 1..Len(sockets) :
    /\ sockets[s].state = "connected"
    /\ Len(sockets[s].decoded) = 2
    /\ sockets[s].decoded[1].t = "error" /\ sockets[s].decoded[2].v = JsonReply
    /\ Len(sockets[s].delivered) = 2

\* C12: the reply "OK" is never given to the handler, wherever it is in the
\* stream, and the calls made with no error are those of the decoded replies
\* other than "OK", one for each.
C12_AckSuppressed ==
  \A s \in 1..Len(sockets) :
    /\ \A i \in 1..Len(sockets[s].delivered) : sockets[s].delivered[i].results # Str("OK")
    /\ repliesOf(deliveredCalls(s)) = claimedCalls(framesOf(sockets[s].decoded, "reply"))

\* "OK" decoded after another reply and before one more
C12_Witness ==
  \E s \in 1..Len(sockets) :
    /\ Len(sockets[s].decoded) = 3
    /\ sockets[s].decoded[1].v = JsonReply
    /\ sockets[s].decoded[2].v = Ack
    /\ sockets[s].decoded[3].v = BadJsonReply
    /\ Len(sockets[s].delivered) = 2

\* the frames open() writes once the socket is connected
claimedWritten(password, command) ==
  IF password # "" THEN <<"AUTH " \o password \o "\r\n", command \o "\r\n">>
  ELSE <<command \o "\r\n">>

\* C13: nothing is written before the socket is connected; a connected socket
\* has had written to it AUTH (if and only if the password is not empty) and then
\* the command, once each, whether or not a reply has been decoded.
C13_WritesOnConnect ==
  \A s \in 1..Len(sockets) :
    /\ sockets[s].state = "connecting" => sockets[s].written = <<>>
    /\ sockets[s].state = "connected" =>
         sockets[s].written = claimedWritten(sockets[s].password, sockets[s].command)
    /\ sockets[s].written \in {<<>>, claimedWritten(sockets[s].password, sockets[s].command)}

\* opened with a password, connected, AUTH and the command written, no reply decoded
C13_Witness ==
  \E s \in 1..Len(sockets) :
    /\ sockets[s].password = "secret" /\ sockets[s].state = "connected"
    /\ Len(sockets[s].written) = 2 /\ sockets[s].decoded = <<>>

\* C14: on each socket the calls made to the handler are the calls of the
\* decoded frames other than "OK", in the order decoded, one for each.
C14_InOrderExactlyOnce ==
  \A s \in 1..Len(sockets) : deliveredCalls(s) = claimedCalls(sockets[s].decoded)

\* three different frames that came in more than one chunk, all delivered
C14_Witness ==
  \E s \in 1..Len(sockets) :
    /\ Len(sockets[s].decoded) = 3 /\ Len(sockets[s].delivered) = 3
    /\ sockets[s].decoded[1].t = "error"
    /\ sockets[s].decoded[2].v = JsonReply
    /\ sockets[s].decoded[3].v = BadJsonReply

\* C15: after the caller's close() has destroyed a socket, no callback is called
\* for it: the handler is not called again, also not for the frames left in the
\* chunk being parsed when close() was called, and the close observer is not called.
C15_CloseIsTerminal ==
  \A s \in 1..Len(sockets) :
    /\ \A i \in 1..Len(sockets[s].delivered) : sockets[s].delivered[i].gone # "caller"
    /\ sockets[s].by = "caller" => observedFor(s) = {}

\* C16: a transport error reaches the caller through the close observer only,
\* never through the handler, and never as an error thrown for want of a listener.
C16_ErrorsOnlyToObserver ==
  /\ ~uncaught
  /\ \A s \in 1..Len(sockets) :
       /\ \A i \in 1..Len(sockets[s].delivered) : sockets[s].delivered[i].gone # "error"
       /\ \A i \in observedFor(s) : observed[i].arg = FALSE

\* C17: over the lifetime of a LiveGeofence the close observer is called at most
\* once, however many times open() was called.
C17_ObserverAtMostOnce == Len(observed) <= 1

\* C18: point(lat, lon) gives the fragment ["POINT", lat, lon] and
\* point(lat, lon, meters) the fragment ["POINT", lat, lon, meters]; on any
\* builder the two serializations differ in length by one.
C18_PointFragment ==
  /\ calls["point"] # <<>> =>
       LET c == calls["point"][Len(calls["point"])]
       IN groupOf("point") =
            IF c.a[3] = Undefined THEN <<Str("POINT"), c.a[1], c.a[2]>>
            ELSE <<Str("POINT"), c.a[1], c.a[2], c.a[3]>>
  /\ \A lat \in Coords, meters \in Meters :
       Len(elems(commandArr(key, point(options, lat, Num(-115), meters)))) =
         Len(elems(commandArr(key, point(options, lat, Num(-115), Undefined)))) + 1

\* point called without meters, on a builder whose output goes on after POINT
C18_Witness ==
  /\ calls["point"] # <<>> /\ calls["roam"] # <<>>
  /\ calls["point"][Len(calls["point"])].a[3] = Undefined
  /\ Len(theOutput) = 9

\* C19: when close() has destroyed a socket, every socket an earlier open()
\* made is destroyed as well.
C19_CloseDestroysAll ==
  \A s \in 1..Len(sockets) :
    sockets[s].by = "caller" =>
      \A r \in 1..s : sockets[r].state = "destroyed"

\* where FENCE is in the output
fenceAt == {i \in 1..Len(theOutput) : theOutput[i] = Str("FENCE")}

\* the serialization the last call made, if it made one
serialized ==
  CASE last.m = "commandArr" -> elems(last.out)
    [] last.m = "execute" -> elems(last.out[4])
    [] last.m = "executeFence" -> elems(last.out[3])
    [] OTHER -> theOutput

\* C20: the output holds no FENCE before executeFence() is called; once it has
\* been called, however often and whatever is called after it, the output holds
\* FENCE once, after the fragments of the kinds up to no-fields and before those
\* of the kinds from detect on; commandArr(), execute() and executeFence() hand
\* out that output.
C20_FenceOnlyByExecuteFence ==
  /\ calls["fence"] = <<>> => fenceAt = {}
  /\ calls["fence"] # <<>> =>
       \E p \in 1..Len(theOutput) :
         /\ fenceAt = {p}
         /\ SubSeq(theOutput, 1, p - 1) =
              <<Str(key)>> \o
                inOrder([k \in Kinds |-> IF rank(k) < rank("fence") THEN fragOf(options[k]) ELSE <<>>], 1)
         /\ SubSeq(theOutput, p + 1, Len(theOutput)) =
              inOrder([k \in Kinds |-> IF rank(k) > rank("fence") THEN fragOf(options[k]) ELSE <<>>], 1)
  /\ serialized = theOutput

\* nofields(), detect() and executeFence() were called, then execute(): FENCE is
\* between NOFIELDS and DETECT in what execute() sent
C20_Witness ==
  /\ last.m = "execute"
  /\ calls["fence"] # <<>> /\ calls["nofields"] # <<>> /\ calls["detect"] # <<>>
  /\ \E p \in fenceAt :
       serialized[p - 1] = Str("NOFIELDS") /\ serialized[p + 1] = Str("DETECT")

====
